---- MODULE Spec2Model ----
(***************************************************************************)
(* Retrieval engine of my-mastra-app: ingestion (chunk, embed, upsert) and *)
(* search (embed query, query store, assemble context, fall back).         *)
(*                                                                         *)
(* The repository holds two builds of the engine:                          *)
(*   "tools"  - src/mastra/tools/rag-tools.ts (src/unnamed/part_000):      *)
(*              addDocumentTool / ragSearchTool over a LibSQLVector store; *)
(*   "simple" - src/src/mastra/agents/rag-agent.ts lines 1-242:            *)
(*              SimpleVectorStore, ragSearchTool, addDocumentsToKnowledge- *)
(*              Base.                                                      *)
(* A run of the program is one build; Init chooses it.                     *)
(*                                                                         *)
(* Strings are TLA+ strings, template literals are \o concatenations.      *)
(* A cosine score dot/(|a||b|) is kept exactly as [num |-> dot,            *)
(* den |-> |a|^2 |b|^2], standing for num / sqrt(den).                     *)
(***************************************************************************)
EXTENDS Integers, Sequences, FiniteSets, TLC

VARIABLES
    variant,    \* which build runs: "tools" or "simple"
    now,        \* Date.now()
    indexExists,\* LibSQLVector: the 'knowledge-base' index was created
    index,      \* LibSQLVector: entries of 'knowledge-base', insertion order
    documents,  \* SimpleVectorStore.documents
    call        \* the calls in flight, one record per call slot

vars == <<variant, now, indexExists, index, documents, call>>

----------------------------------------------------------------------------
\* Bounds of the model.

MaxCalls == 2       \* calls made in a run (they may overlap)
MaxClock == 1       \* largest value of Date.now()
MaxEntries == 3     \* entries a store may hold
MaxTopK == 2        \* largest topK / maxResults asked for

\* text-embedding-004 dimension (768 in the source), scaled down.
Dimension == 2

Calls == 1..MaxCalls
TopKs == 0..MaxTopK

----------------------------------------------------------------------------
\* Scores.

Dot(a, b) == LET RECURSIVE Sum(_)
                 Sum(i) == IF i = 0 THEN 0 ELSE Sum(i - 1) + a[i] * b[i]
             IN  Sum(Len(a))

\* Mutant of cosineSimilarity: the norm of b is left out.
M_cosineSimilarity(a, b) == [num |-> Dot(a, b), den |-> Dot(a, a)]

\* dot / (|a| * |b|), exactly.
cosineSimilarity(a, b) == [num |-> Dot(a, b), den |-> Dot(a, a) * Dot(b, b)]

\* Sign-preserving square of a score's numerator: orders scores without roots.
SignedSq(s) == IF s.num >= 0 THEN s.num * s.num ELSE 0 - (s.num * s.num)

ScoreGreater(s, t) == SignedSq(s) * t.den > SignedSq(t) * s.den
ScoreEqual(s, t) == SignedSq(s) * t.den = SignedSq(t) * s.den

\* 0.1, the cut-off of SimpleVectorStore.query.
LowSimilarity == [num |-> 1, den |-> 100]
\* 0.7, the default minScore of ragSearchTool (rag-tools).
DefaultMinScore == [num |-> 7, den |-> 100]
\* 0.5, the score of the fallback source.
FallbackScore == [num |-> 1, den |-> 4]

----------------------------------------------------------------------------
\* Arrays.

\* Mutant of SliceTo: the end index is one too far.
M_SliceTo(s, k) == SubSeq(s, 1, IF k + 1 > Len(s) THEN Len(s) ELSE k + 1)

\* Array.prototype.slice(0, k); a negative k counts from the end.
SliceTo(s, k) ==
    LET end == IF k < 0 THEN (IF Len(s) + k < 0 THEN 0 ELSE Len(s) + k)
               ELSE (IF k > Len(s) THEN Len(s) ELSE k)
    IN  SubSeq(s, 1, end)

\* Array.prototype.filter with the predicate "score > min".
FilterAbove(s, min) == SelectSeq(s, LAMBDA r : ScoreGreater(r.score, min))

\* Mutant of InsertByScore: an unstable sort, x goes before its equals.
M_InsertByScore(sorted, x) ==
    LET k == Cardinality({i \in 1..Len(sorted) :
                             ScoreGreater(sorted[i].score, x.score)})
    IN  SubSeq(sorted, 1, k) \o <<x>> \o SubSeq(sorted, k + 1, Len(sorted))

\* One step of a stable descending sort: x goes after every element that does
\* not score below it.
InsertByScore(sorted, x) ==
    LET k == Cardinality({i \in 1..Len(sorted) :
                             ~ScoreGreater(x.score, sorted[i].score)})
    IN  SubSeq(sorted, 1, k) \o <<x>> \o SubSeq(sorted, k + 1, Len(sorted))

\* Array.prototype.sort((a, b) => b.score - a.score): stable, descending.
SortByScore(s) ==
    LET RECURSIVE Sorted(_)
        Sorted(n) == IF n = 0 THEN <<>> ELSE InsertByScore(Sorted(n - 1), s[n])
    IN  Sorted(Len(s))

\* Array.prototype.join over strings.
Join(parts, sep) ==
    LET RECURSIVE J(_)
        J(n) == IF n = 0 THEN ""
                ELSE IF n = 1 THEN parts[1]
                ELSE J(n - 1) \o sep \o parts[n]
    IN  J(Len(parts))

\* Object spread {...a, ...b}: b's keys win.
Spread(a, b) == [k \in DOMAIN a \cup DOMAIN b |->
                    IF k \in DOMAIN b THEN b[k] ELSE a[k]]

EmptyObject == [k \in {} |-> ""]

----------------------------------------------------------------------------
\* Thrown values and external collaborators.

Err(msg) == [instanceofError |-> TRUE, message |-> msg]
NoError == [instanceofError |-> FALSE, message |-> ""]

\* error instanceof Error ? error.message : 'Unknown error occurred'
ErrorMessage(error) ==
    IF error.instanceofError THEN error.message ELSE "Unknown error occurred"

InvalidChunkConfig == Err("InvalidChunkConfig: chunk overlap must be smaller than chunk size")
EmbeddingServiceError == Err("EmbeddingServiceError: embedding request failed")
StoreWriteError == Err("StoreWriteError: upsert failed")
StoreQueryError == Err("StoreQueryError: query failed")
DimensionMismatch == Err("DimensionMismatch: vector length does not match index dimension")
IndexNotFound == Err("StoreError: index knowledge-base does not exist")

\* The embedding service: a fixed map from text to a vector of Dimension
\* components (deterministic for a fixed model and input).
Embed(t) ==
    CASE t = "a"  -> <<1, 0>>
      [] t = "aa" -> <<2, 0>>
      [] t = "b"  -> <<0, 1>>
      [] t = "ab" -> <<1, 1>>
      [] t = "n"  -> <<-1, 0>>
      [] OTHER    -> <<1, 2>>

\* embedMany({values}): one vector per value, in order.
EmbedMany(values) == [i \in 1..Len(values) |-> Embed(values[i])]

\* A document text is kept as the sequence of its paragraphs (the pieces
\* between '\n\n' separators); every paragraph is shorter than any valid size.
\* MDocument.chunk: one chunk per paragraph, each inheriting the document's
\* metadata; overlap >= size is rejected.
ChunkFails(size, overlap) == overlap >= size

Chunk(paragraphs, docMetadata) ==
    [i \in 1..Len(paragraphs) |-> [text |-> paragraphs[i], metadata |-> docMetadata]]

----------------------------------------------------------------------------
\* LibSQLVector, the store of the "tools" build (the Store of spec section 4.3).

EntryPos(idx, id) == {i \in 1..Len(idx) : idx[i].id = id}

\* One entry written: an existing id is overwritten whole, a new id appended.
PutEntry(idx, e) ==
    IF EntryPos(idx, e.id) = {} THEN Append(idx, e)
    ELSE [i \in 1..Len(idx) |-> IF idx[i].id = e.id THEN e ELSE idx[i]]

\* upsert's argument check: equal lengths, every vector of the index dimension.
UpsertWellFormed(ids, vectors, metadata) ==
    /\ Len(ids) = Len(vectors)
    /\ Len(ids) = Len(metadata)
    /\ \A i \in 1..Len(vectors) : Len(vectors[i]) = Dimension

\* upsert({indexName, vectors, metadata, ids}) once it is accepted.
StoreUpsert(idx, ids, vectors, metadata) ==
    LET RECURSIVE Put(_)
        Put(n) == IF n = 0 THEN idx
                  ELSE PutEntry(Put(n - 1),
                                [id |-> ids[n], embedding |-> vectors[n],
                                 metadata |-> metadata[n]])
    IN  Put(Len(ids))

\* A metadata filter keeps the entries that carry every filtered key's value.
MatchesFilter(metadata, filter) ==
    \A k \in DOMAIN filter : k \in DOMAIN metadata /\ metadata[k] = filter[k]

\* query({indexName, queryVector, topK, filter, minScore}).
StoreQuery(idx, queryVector, topK, filter, minScore) ==
    LET eligible == SelectSeq(idx, LAMBDA e : MatchesFilter(e.metadata, filter))
        scored == [i \in 1..Len(eligible) |->
                     [id |-> eligible[i].id,
                      score |-> cosineSimilarity(queryVector, eligible[i].embedding),
                      metadata |-> eligible[i].metadata]]
    IN  SliceTo(SortByScore(FilterAbove(scored, minScore)), topK)

----------------------------------------------------------------------------
\* Calls.  A call slot holds one invocation of an async function and, once it
\* is done, its outcome.  Between two awaits a function runs alone (one event
\* loop), so each action is one await-to-await stretch of a handler, its catch
\* block included.

IdleCall ==
    [op |-> "none", pc |-> "idle", input |-> EmptyObject, documentId |-> "",
     chunks |-> <<>>, chunkMetadata |-> <<>>, embeddings |-> <<>>,
     queryEmbedding |-> <<>>, log |-> <<>>, failedAt |-> "",
     error |-> NoError, result |-> EmptyObject, raised |-> FALSE,
     docIndex |-> 0,          \* initializeSampleData: the document in hand
     indexExisted |-> FALSE,  \* createIndex found the index, entries in it
     response |-> EmptyObject,\* action handlers: the route's HTTP response
     returned |-> ""]         \* action handlers: the string returned

\* The handler's catch block took `error` at `step` and returned `result`.
Caught(c, step, error, result) ==
    [call[c] EXCEPT !.pc = "done", !.failedAt = step, !.error = error,
                    !.result = result]

\* Entries the calls in flight may still write.
Pending == LET RECURSIVE Sum(_)
               Sum(n) == IF n = 0 THEN 0
                         ELSE Sum(n - 1) + (IF call[n].op \in {"addDocument", "addDocuments",
                                                               "initializeSampleData"}
                                               /\ call[n].pc # "done"
                                            THEN call[n].input.size ELSE 0)
           IN  Sum(MaxCalls)

HasRoom(n) == Len(index) + Len(documents) + Pending + n <= MaxEntries

\* Slots are interchangeable: a new call takes the first free one.
FirstFree(c) == call[c].pc = "idle" /\ \A d \in 1..(c - 1) : call[d].pc # "idle"

\* Searches only read the store and do not affect one another: one at a time.
NoSearchInFlight ==
    \A d \in Calls : call[d].op \in {"ragSearch", "simpleSearch"} => call[d].pc = "done"

----------------------------------------------------------------------------
\* addDocumentTool.execute (rag-tools).

\* Inputs tried: text (as paragraphs), metadata, chunkSize, chunkOverlap.
AddDocumentInputs ==
    { [text |-> <<"a">>, metadata |-> EmptyObject, chunkSize |-> 512, chunkOverlap |-> 50],
      [text |-> <<"aa", "b">>, metadata |-> [source |-> "s1"], chunkSize |-> 512, chunkOverlap |-> 50],
      [text |-> <<"b">>, metadata |-> EmptyObject, chunkSize |-> 50, chunkOverlap |-> 50] }

DocId(t) == "doc-" \o ToString(t)
ChunkId(documentId, i) == documentId \o "-chunk-" \o ToString(i)

\* Mutant of AddDocumentFailure: the reason is dropped from the message.
M_AddDocumentFailure(error) ==
    [documentId |-> "error", chunksCreated |-> 0, embedded |-> FALSE,
     message |-> "Error processing document: Unknown error occurred"]

\* The result of the catch block.
AddDocumentFailure(error) ==
    [documentId |-> "error", chunksCreated |-> 0, embedded |-> FALSE,
     message |-> "Error processing document: " \o ErrorMessage(error)]

AddDocumentSuccess(documentId, n) ==
    [documentId |-> documentId, chunksCreated |-> n, embedded |-> TRUE,
     message |-> "Successfully processed document into " \o ToString(n)
                 \o " chunks and stored embeddings in vector database."]

\* MDocument.fromText(text, {...metadata, addedAt, id: `doc-${Date.now()}`}),
\* then await document.chunk(...).
AddStart(c, inp) ==
    /\ variant = "tools"
    /\ FirstFree(c)
    /\ HasRoom(Len(inp.text))
    /\ call' = [call EXCEPT ![c] =
          [IdleCall EXCEPT
             !.op = "addDocument", !.pc = "chunk",
             !.input = [text |-> inp.text, chunkSize |-> inp.chunkSize,
                        chunkOverlap |-> inp.chunkOverlap, size |-> Len(inp.text),
                        supplied |-> inp.metadata,
                        metadata |-> Spread(inp.metadata,
                                            [addedAt |-> now, id |-> DocId(now)])]]]
    /\ UNCHANGED <<variant, now, indexExists, index, documents>>

\* chunk() settles; documentId = docMetadata[0]?.id || `doc-${Date.now()}`;
\* then await vectorStore.createIndex(...).
AddChunk(c) ==
    /\ variant = "tools"
    /\ call[c].op = "addDocument" /\ call[c].pc = "chunk"
    /\ LET in == call[c].input
           chunks == Chunk(in.text, in.metadata)
       IN  call' = [call EXCEPT ![c] =
              IF ChunkFails(in.chunkSize, in.chunkOverlap)
              THEN Caught(c, "chunk", InvalidChunkConfig,
                          AddDocumentFailure(InvalidChunkConfig))
              ELSE [call[c] EXCEPT
                      !.pc = "createIndex", !.chunks = chunks,
                      !.log = Append(@, "chunk"),
                      !.documentId = IF chunks # <<>> /\ chunks[1].metadata.id # ""
                                     THEN chunks[1].metadata.id ELSE DocId(now)]]
    /\ UNCHANGED <<variant, now, indexExists, index, documents>>

\* chunkMetadata of one chunk.
ToolChunkMetadata(chunk, documentId, i, t) ==
    Spread(chunk.metadata,
           [text |-> chunk.text, documentId |-> documentId, chunkIndex |-> i,
            addedAt |-> t])

\* Mutant of AddCreateIndex: createIndex on an index that exists is a hard
\* failure of the call.
M_AddCreateIndex(c) ==
    /\ variant = "tools"
    /\ call[c].op = "addDocument" /\ call[c].pc = "createIndex"
    /\ indexExists' = TRUE
    /\ call' = [call EXCEPT ![c] =
          IF indexExists
          THEN Caught(c, "createIndex", Err("IndexAlreadyExists"),
                      AddDocumentFailure(Err("IndexAlreadyExists")))
          ELSE [call[c] EXCEPT
                  !.pc = "embed", !.log = Append(@, "createIndex"),
                  !.chunkMetadata =
                      [i \in 1..Len(call[c].chunks) |->
                         ToolChunkMetadata(call[c].chunks[i], call[c].documentId,
                                           i - 1, now)]]]
    /\ UNCHANGED <<variant, now, index, documents>>

\* createIndex settles (a failure is logged and swallowed); chunkTexts and
\* chunkMetadata are built; then await embedMany(...).
AddCreateIndex(c) ==
    /\ variant = "tools"
    /\ call[c].op = "addDocument" /\ call[c].pc = "createIndex"
    /\ \E created \in BOOLEAN :
          indexExists' = (indexExists \/ created)
    /\ call' = [call EXCEPT ![c] =
          [call[c] EXCEPT
             !.pc = "embed", !.log = Append(@, "createIndex"),
             !.indexExisted = (indexExists /\ index # <<>>),
             !.chunkMetadata =
                 [i \in 1..Len(call[c].chunks) |->
                    ToolChunkMetadata(call[c].chunks[i], call[c].documentId, i - 1, now)]]]
    /\ UNCHANGED <<variant, now, index, documents>>

\* Mutant of AddEmbed: a failed embedMany is tried once more.
M_AddEmbed(c) ==
    /\ variant = "tools"
    /\ call[c].op = "addDocument" /\ call[c].pc = "embed"
    /\ \E ok \in BOOLEAN :
          call' = [call EXCEPT ![c] =
             IF ok
             THEN [call[c] EXCEPT
                     !.pc = "upsert", !.log = Append(@, "embed"),
                     !.embeddings = EmbedMany([i \in 1..Len(call[c].chunks) |->
                                                  call[c].chunks[i].text])]
             ELSE IF call[c].failedAt = ""
             THEN [call[c] EXCEPT !.failedAt = "embed", !.error = EmbeddingServiceError]
             ELSE Caught(c, "embed", EmbeddingServiceError,
                         AddDocumentFailure(EmbeddingServiceError))]
    /\ UNCHANGED <<variant, now, indexExists, index, documents>>

\* embedMany settles; on success await vectorStore.upsert(...).
AddEmbed(c) ==
    /\ variant = "tools"
    /\ call[c].op = "addDocument" /\ call[c].pc = "embed"
    /\ \E ok \in BOOLEAN :
          call' = [call EXCEPT ![c] =
             IF ok
             THEN [call[c] EXCEPT
                     !.pc = "upsert", !.log = Append(@, "embed"),
                     !.embeddings = EmbedMany([i \in 1..Len(call[c].chunks) |->
                                                  call[c].chunks[i].text])]
             ELSE Caught(c, "embed", EmbeddingServiceError,
                         AddDocumentFailure(EmbeddingServiceError))]
    /\ UNCHANGED <<variant, now, indexExists, index, documents>>

\* Mutant of ToolChunkIds: every chunk gets the id of chunk 0.
M_ToolChunkIds(documentId, n) == [i \in 1..n |-> ChunkId(documentId, 0)]

\* ids: chunks.map((_, index) => `${documentId}-chunk-${index}`)
ToolChunkIds(documentId, n) == [i \in 1..n |-> ChunkId(documentId, i - 1)]

\* The error upsert throws for these arguments in this store state, if any.
UpsertError(ids, vectors, metadata) ==
    IF ~indexExists THEN IndexNotFound
    ELSE IF ~UpsertWellFormed(ids, vectors, metadata) THEN DimensionMismatch
    ELSE NoError

\* upsert settles; the handler returns its success or failure result.
AddUpsert(c) ==
    /\ variant = "tools"
    /\ call[c].op = "addDocument" /\ call[c].pc = "upsert"
    /\ LET ids == ToolChunkIds(call[c].documentId, Len(call[c].chunks))
           rejected == UpsertError(ids, call[c].embeddings, call[c].chunkMetadata)
           issued == [call EXCEPT ![c].log = Append(@, "upsert")]
       IN  \E ok \in BOOLEAN :
             LET error == IF rejected # NoError THEN rejected
                          ELSE IF ~ok THEN StoreWriteError ELSE NoError
             IN  IF error = NoError
                 THEN /\ index' = StoreUpsert(index, ids, call[c].embeddings,
                                              call[c].chunkMetadata)
                      /\ call' = [issued EXCEPT ![c] =
                            [issued[c] EXCEPT
                               !.pc = "done",
                               !.result = AddDocumentSuccess(call[c].documentId,
                                                             Len(call[c].chunks))]]
                 ELSE /\ index' = index
                      /\ call' = [issued EXCEPT ![c] =
                            [issued[c] EXCEPT
                               !.pc = "done", !.failedAt = "upsert", !.error = error,
                               !.result = AddDocumentFailure(error)]]
    /\ UNCHANGED <<variant, now, indexExists, documents>>

----------------------------------------------------------------------------
\* ragSearchTool.execute (rag-tools).

NoFilter == EmptyObject

\* Inputs tried: query, maxResults, minScore, filter.
SearchInputs ==
    { [query |-> "a", maxResults |-> MaxTopK, minScore |-> LowSimilarity, filter |-> NoFilter],
      [query |-> "a", maxResults |-> 1, minScore |-> DefaultMinScore,
       filter |-> [source |-> "s1"]],
      [query |-> "a", maxResults |-> MaxTopK, minScore |-> LowSimilarity,
       filter |-> [source |-> "s2"]] }

\* One vector result as a source of the response.
ToolSource(r) ==
    [id |-> r.id,
     content |-> IF "text" \in DOMAIN r.metadata /\ r.metadata.text # ""
                 THEN r.metadata.text ELSE "No content available",
     score |-> r.score,
     metadata |-> r.metadata]

\* `[Source: ${source.metadata.documentId || 'unknown'}]\n${source.content}`
ToolContextPart(source) ==
    "[Source: "
    \o (IF "documentId" \in DOMAIN source.metadata /\ source.metadata.documentId # ""
        THEN source.metadata.documentId ELSE "unknown")
    \o "]\n" \o source.content

\* The response of the try block.
ToolSearchResponse(vectorResults) ==
    LET sources == [i \in 1..Len(vectorResults) |-> ToolSource(vectorResults[i])]
    IN  [relevantContext |-> Join([i \in 1..Len(sources) |-> ToolContextPart(sources[i])],
                                  "\n\n---\n\n"),
         sources |-> sources,
         totalFound |-> Len(vectorResults),
         searchPerformed |-> TRUE]

\* Mutant of ToolSearchFallback: the catch block answers as if the search had
\* run and found nothing.
M_ToolSearchFallback(query, error) == ToolSearchResponse(<<>>)

FallbackContent(query, errorMessage) ==
    "Based on the query \"" \o query
    \o "\", here is fallback information. The vector search encountered an error: "
    \o errorMessage

\* The response of the catch block.
ToolSearchFallback(query, error) ==
    LET mockResults ==
          << [id |-> "fallback-1",
              content |-> FallbackContent(query, ErrorMessage(error)),
              score |-> FallbackScore,
              metadata |-> [documentId |-> "fallback", source |-> "error-fallback",
                            error |-> TRUE]] >>
    IN  [relevantContext |-> mockResults[1].content,
         sources |-> mockResults,
         totalFound |-> 1,
         searchPerformed |-> FALSE]

\* The handler starts: await embedMany({values: [query]}).
SearchStart(c, inp) ==
    /\ variant = "tools"
    /\ FirstFree(c) /\ NoSearchInFlight
    /\ call' = [call EXCEPT ![c] =
          [IdleCall EXCEPT !.op = "ragSearch", !.pc = "embed", !.input = inp]]
    /\ UNCHANGED <<variant, now, indexExists, index, documents>>

\* embedMany settles; on success await vectorStore.query(...).
SearchEmbed(c) ==
    /\ variant = "tools"
    /\ call[c].op = "ragSearch" /\ call[c].pc = "embed"
    /\ \E ok \in BOOLEAN :
          call' = [call EXCEPT ![c] =
             IF ok
             THEN [call[c] EXCEPT
                     !.pc = "query", !.log = Append(@, "embed"),
                     !.queryEmbedding = EmbedMany(<<call[c].input.query>>)[1]]
             ELSE Caught(c, "embed", EmbeddingServiceError,
                         ToolSearchFallback(call[c].input.query, EmbeddingServiceError))]
    /\ UNCHANGED <<variant, now, indexExists, index, documents>>

\* query settles; the handler returns the response or the fallback.
SearchQuery(c) ==
    /\ variant = "tools"
    /\ call[c].op = "ragSearch" /\ call[c].pc = "query"
    /\ LET in == call[c].input
           issued == [call[c] EXCEPT !.log = Append(@, "query")]
       IN  \E ok \in BOOLEAN :
             LET error == IF ~indexExists THEN IndexNotFound
                          ELSE IF ~ok THEN StoreQueryError ELSE NoError
             IN  call' = [call EXCEPT ![c] =
                    IF error = NoError
                    THEN [issued EXCEPT
                            !.pc = "done",
                            !.result = ToolSearchResponse(
                                StoreQuery(index, call[c].queryEmbedding,
                                           in.maxResults, in.filter, in.minScore))]
                    ELSE [issued EXCEPT
                            !.pc = "done", !.failedAt = "query", !.error = error,
                            !.result = ToolSearchFallback(in.query, error)]]
    /\ UNCHANGED <<variant, now, indexExists, index, documents>>

----------------------------------------------------------------------------
\* SimpleVectorStore (rag-agent.ts).

\* a[i] of a JavaScript array (i from 0): absent past the end.  An absent
\* vector (undefined) is kept as the empty sequence, an absent object as {}.
VectorAt(a, i) == IF i + 1 <= Len(a) THEN a[i + 1] ELSE <<>>
ObjectAt(a, i) == IF i + 1 <= Len(a) THEN a[i + 1] ELSE EmptyObject

\* Mutant of addDocuments: the loop stops one text early.
M_addDocuments(docs, texts, embeddings, metadata, t) ==
    docs \o [i \in 1..(Len(texts) - 1) |->
               [id |-> "doc-" \o ToString(t) \o "-" \o ToString(i - 1),
                embedding |-> VectorAt(embeddings, i - 1),
                metadata |-> Spread([text |-> texts[i]], ObjectAt(metadata, i - 1))]]

\* addDocuments(texts, embeddings, metadata) at time t: one push per text.
addDocuments(docs, texts, embeddings, metadata, t) ==
    docs \o [i \in 1..Len(texts) |->
               [id |-> "doc-" \o ToString(t) \o "-" \o ToString(i - 1),
                embedding |-> VectorAt(embeddings, i - 1),
                metadata |-> Spread([text |-> texts[i]], ObjectAt(metadata, i - 1))]]

\* query's pipeline: map to scored results, sort, slice(0, topK), filter.
\* Each result carries the position of its document (pos) for the record.
QueryRanked(docs, queryEmbedding, topK) ==
    LET results == [i \in 1..Len(docs) |->
                      [id |-> docs[i].id,
                       score |-> cosineSimilarity(queryEmbedding, docs[i].embedding),
                       metadata |-> docs[i].metadata,
                       pos |-> i]]
    IN  FilterAbove(SliceTo(SortByScore(results), topK), LowSimilarity)

\* Mutant of query: each result carries the metadata of the first document.
M_query(docs, queryEmbedding, topK) ==
    LET ranked == QueryRanked(docs, queryEmbedding, topK)
    IN  [i \in 1..Len(ranked) |->
           [id |-> ranked[i].id, score |-> ranked[i].score,
            metadata |-> docs[1].metadata]]

\* query(queryEmbedding, topK): VectorResult[]
query(docs, queryEmbedding, topK) ==
    LET ranked == QueryRanked(docs, queryEmbedding, topK)
    IN  [i \in 1..Len(ranked) |->
           [id |-> ranked[i].id, score |-> ranked[i].score,
            metadata |-> ranked[i].metadata]]

----------------------------------------------------------------------------
\* ragSearchTool.execute (rag-agent.ts).

NoDocumentsMessage == "No relevant documents found for the given query."

SimpleSearchInputs ==
    { [query |-> "a", maxResults |-> MaxTopK],
      [query |-> "a", maxResults |-> 1],
      [query |-> "b", maxResults |-> 0] }

SimpleSource(r, i) ==
    [id |-> IF r.id # "" THEN r.id ELSE "result-" \o ToString(i),
     content |-> IF "text" \in DOMAIN r.metadata /\ r.metadata.text # ""
                 THEN r.metadata.text ELSE "No content available",
     score |-> r.score,
     metadata |-> r.metadata]

\* The response of the try block.
SimpleSearchResponse(searchResults) ==
    IF Len(searchResults) = 0
    THEN [relevantContext |-> NoDocumentsMessage, sources |-> <<>>]
    ELSE LET sources == [i \in 1..Len(searchResults) |->
                           SimpleSource(searchResults[i], i - 1)]
         IN  [relevantContext |-> Join([i \in 1..Len(sources) |-> sources[i].content],
                                       "\n\n---\n\n"),
              sources |-> sources]

\* The response of the catch block.
SimpleSearchError(error) ==
    [relevantContext |-> "Error occurred while searching the knowledge base: "
                         \o (IF error.instanceofError THEN error.message
                             ELSE "Unknown error")
                         \o ". Please try rephrasing your question.",
     sources |-> <<>>]

\* The handler starts: await embed({value: query}).
SimpleSearchStart(c, inp) ==
    /\ variant = "simple"
    /\ FirstFree(c) /\ NoSearchInFlight
    /\ call' = [call EXCEPT ![c] =
          [IdleCall EXCEPT !.op = "simpleSearch", !.pc = "embed", !.input = inp]]
    /\ UNCHANGED <<variant, now, indexExists, index, documents>>

\* embed settles; on success await vectorStore.query(...).
SimpleSearchEmbed(c) ==
    /\ variant = "simple"
    /\ call[c].op = "simpleSearch" /\ call[c].pc = "embed"
    /\ \E ok \in BOOLEAN :
          call' = [call EXCEPT ![c] =
             IF ok
             THEN [call[c] EXCEPT
                     !.pc = "query", !.log = Append(@, "embed"),
                     !.queryEmbedding = Embed(call[c].input.query)]
             ELSE Caught(c, "embed", EmbeddingServiceError,
                         SimpleSearchError(EmbeddingServiceError))]
    /\ UNCHANGED <<variant, now, indexExists, index, documents>>

\* query settles (an in-memory scan); the handler returns the response.
SimpleSearchQuery(c) ==
    /\ variant = "simple"
    /\ call[c].op = "simpleSearch" /\ call[c].pc = "query"
    /\ call' = [call EXCEPT ![c] =
          [call[c] EXCEPT
             !.pc = "done", !.log = Append(@, "query"),
             !.result = SimpleSearchResponse(
                 query(documents, call[c].queryEmbedding, call[c].input.maxResults))]]
    /\ UNCHANGED <<variant, now, indexExists, index, documents>>

----------------------------------------------------------------------------
\* addDocumentsToKnowledgeBase (rag-agent.ts).

\* Inputs tried: documents (each as paragraphs) and their metadata.
KnowledgeBaseInputs ==
    { [documents |-> << <<"a">> >>, metadata |-> << [source |-> "s1"] >>],
      [documents |-> << <<"a", "b">>, <<"aa">> >>, metadata |-> <<>>],
      [documents |-> << <<"ab", "n">> >>, metadata |-> << EmptyObject >>] }

\* Chunks of all the documents, in order.
KbChunkCount(docs) ==
    LET RECURSIVE N(_)
        N(n) == IF n = 0 THEN 0 ELSE N(n - 1) + Len(docs[n])
    IN  N(Len(docs))

\* allMetadata.push({text, source, chunk_index, timestamp, ...chunk.metadata,
\* ...docMetadata}) for chunk idx of document i.
KbChunkMetadata(chunk, docMetadata, i, idx, t) ==
    Spread(Spread([text |-> chunk.text,
                   source |-> IF "source" \in DOMAIN docMetadata /\ docMetadata.source # ""
                              THEN docMetadata.source
                              ELSE "document-" \o ToString(i),
                   chunk_index |-> idx,
                   timestamp |-> t],
                  chunk.metadata),
           docMetadata)

\* The loop over the documents: allChunks and allMetadata.
KbAllChunks(docs, metadata, t) ==
    LET RECURSIVE All(_)
        All(n) ==
          IF n = 0 THEN <<>>
          ELSE LET docMetadata == ObjectAt(metadata, n - 1)
                   chunks == Chunk(docs[n], docMetadata)
               IN  All(n - 1) \o
                   [idx \in 1..Len(chunks) |->
                      [text |-> chunks[idx].text,
                       metadata |-> KbChunkMetadata(chunks[idx], docMetadata,
                                                    n - 1, idx - 1, t)]]
    IN  All(Len(docs))

\* The function starts: the first await doc.chunk(...).
KbStart(c, inp) ==
    /\ variant = "simple"
    /\ FirstFree(c)
    /\ HasRoom(KbChunkCount(inp.documents))
    /\ call' = [call EXCEPT ![c] =
          [IdleCall EXCEPT
             !.op = "addDocuments", !.pc = "chunk",
             !.input = [documents |-> inp.documents, metadata |-> inp.metadata,
                        size |-> KbChunkCount(inp.documents)]]]
    /\ UNCHANGED <<variant, now, indexExists, index, documents>>

\* Every document is chunked; then await embedMany({values: allChunks}).
KbChunk(c) ==
    /\ variant = "simple"
    /\ call[c].op = "addDocuments" /\ call[c].pc = "chunk"
    /\ call' = [call EXCEPT ![c] =
          [call[c] EXCEPT
             !.pc = "embed", !.log = Append(@, "chunk"),
             !.chunks = KbAllChunks(call[c].input.documents, call[c].input.metadata, now)]]
    /\ UNCHANGED <<variant, now, indexExists, index, documents>>

\* embedMany settled with `embeddings`: await vectorStore.addDocuments(...).
KbEmbedded(c, embeddings) ==
    [call[c] EXCEPT !.pc = "upsert", !.log = Append(@, "embed"),
                    !.embeddings = embeddings]

\* Mutant of KbEmbed: a failure is logged and the function carries on.
M_KbEmbed(c) ==
    /\ variant = "simple"
    /\ call[c].op = "addDocuments" /\ call[c].pc = "embed"
    /\ \E ok \in BOOLEAN :
          call' = [call EXCEPT ![c] =
             IF ok
             THEN KbEmbedded(c, EmbedMany([i \in 1..Len(call[c].chunks) |->
                                              call[c].chunks[i].text]))
             ELSE [KbEmbedded(c, <<>>) EXCEPT
                     !.failedAt = "embed", !.error = EmbeddingServiceError]]
    /\ UNCHANGED <<variant, now, indexExists, index, documents>>

\* embedMany settles; a failure is logged and thrown again.
KbEmbed(c) ==
    /\ variant = "simple"
    /\ call[c].op = "addDocuments" /\ call[c].pc = "embed"
    /\ \E ok \in BOOLEAN :
          call' = [call EXCEPT ![c] =
             IF ok
             THEN KbEmbedded(c, EmbedMany([i \in 1..Len(call[c].chunks) |->
                                              call[c].chunks[i].text]))
             ELSE [call[c] EXCEPT
                     !.pc = "done", !.failedAt = "embed",
                     !.error = EmbeddingServiceError, !.raised = TRUE]]
    /\ UNCHANGED <<variant, now, indexExists, index, documents>>

\* vectorStore.addDocuments(allChunks, embeddings, allMetadata) runs.
KbStore(c) ==
    /\ variant = "simple"
    /\ call[c].op = "addDocuments" /\ call[c].pc = "upsert"
    /\ documents' = addDocuments(documents,
                                 [i \in 1..Len(call[c].chunks) |-> call[c].chunks[i].text],
                                 call[c].embeddings,
                                 [i \in 1..Len(call[c].chunks) |-> call[c].chunks[i].metadata],
                                 now)
    /\ call' = [call EXCEPT ![c] =
          [call[c] EXCEPT !.pc = "done", !.log = Append(@, "upsert")]]
    /\ UNCHANGED <<variant, now, indexExists, index>>

----------------------------------------------------------------------------
\* initializeSampleData (rag-agent.ts, the build over rag-tools).

\* The sample documents (four in the source, two here), one paragraph each,
\* each carrying its id in its metadata.
sampleDocuments ==
    << [text |-> <<"a">>,
        metadata |-> [source |-> "mastra-overview.md", category |-> "framework",
                      id |-> "doc-sample-1"]],
       [text |-> <<"b">>,
        metadata |-> [source |-> "rag-guide.md", category |-> "rag",
                      id |-> "doc-sample-2"]] >>

\* Chunks of all the sample documents.
SampleChunkCount ==
    LET RECURSIVE N(_)
        N(n) == IF n = 0 THEN 0 ELSE N(n - 1) + Len(sampleDocuments[n].text)
    IN  N(Len(sampleDocuments))

\* The ids initializeSampleData writes.
SampleIds ==
    UNION { {ChunkId(sampleDocuments[n].metadata.id, i - 1) :
                i \in 1..Len(sampleDocuments[n].text)} :
            n \in 1..Len(sampleDocuments) }

\* Entries a new run of initializeSampleData may add to the index.
SampleRoom ==
    IF \E d \in Calls : call[d].op = "initializeSampleData" /\ call[d].pc # "done"
    THEN 0
    ELSE Cardinality({id \in SampleIds : EntryPos(index, id) = {}})

\* The function starts: await vectorStore.createIndex(...).
SampleStart(c) ==
    /\ variant = "tools"
    /\ FirstFree(c)
    /\ HasRoom(SampleRoom)
    /\ call' = [call EXCEPT ![c] =
          [IdleCall EXCEPT
             !.op = "initializeSampleData", !.pc = "createIndex",
             !.input = [size |-> SampleChunkCount]]]
    /\ UNCHANGED <<variant, now, indexExists, index, documents>>

\* The loop takes document n (from 1), or the function returns after the last:
\* MDocument.fromText(sampleDoc.text, {...sampleDoc.metadata, addedAt}), then
\* await document.chunk(...).
SampleNextDoc(rec, n) ==
    IF n > Len(sampleDocuments)
    THEN [rec EXCEPT !.pc = "done"]
    ELSE [rec EXCEPT !.pc = "chunk", !.docIndex = n, !.documentId = "",
                     !.chunks = <<>>, !.chunkMetadata = <<>>, !.embeddings = <<>>]

\* createIndex settles (a failure is logged and swallowed); the loop starts.
SampleCreateIndex(c) ==
    /\ variant = "tools"
    /\ call[c].op = "initializeSampleData" /\ call[c].pc = "createIndex"
    /\ \E created \in BOOLEAN :
          indexExists' = (indexExists \/ created)
    /\ call' = [call EXCEPT ![c] =
          SampleNextDoc([call[c] EXCEPT
                           !.log = Append(@, "createIndex"),
                           !.indexExisted = (indexExists /\ index # <<>>)], 1)]
    /\ UNCHANGED <<variant, now, index, documents>>

\* chunk() settles; documentId = document.getMetadata()[0]?.id ||
\* `doc-${Date.now()}`; chunkMetadata is built (its addedAt replaces the one
\* fromText gave); then await embedMany(...).
SampleChunk(c) ==
    /\ variant = "tools"
    /\ call[c].op = "initializeSampleData" /\ call[c].pc = "chunk"
    /\ LET doc == sampleDocuments[call[c].docIndex]
           chunks == Chunk(doc.text, Spread(doc.metadata, [addedAt |-> now]))
           documentId == IF chunks # <<>> /\ "id" \in DOMAIN chunks[1].metadata
                            /\ chunks[1].metadata.id # ""
                         THEN chunks[1].metadata.id ELSE DocId(now)
       IN  call' = [call EXCEPT ![c] =
              [call[c] EXCEPT
                 !.pc = "embed", !.chunks = chunks, !.documentId = documentId,
                 !.log = Append(@, "chunk"),
                 !.chunkMetadata =
                     [i \in 1..Len(chunks) |->
                        ToolChunkMetadata(chunks[i], documentId, i - 1, now)]]]
    /\ UNCHANGED <<variant, now, indexExists, index, documents>>

\* embedMany settles; on success await vectorStore.upsert(...); a failure is
\* logged and the loop goes on with the next document.
SampleEmbed(c) ==
    /\ variant = "tools"
    /\ call[c].op = "initializeSampleData" /\ call[c].pc = "embed"
    /\ \E ok \in BOOLEAN :
          call' = [call EXCEPT ![c] =
             IF ok
             THEN [call[c] EXCEPT
                     !.pc = "upsert", !.log = Append(@, "embed"),
                     !.embeddings = EmbedMany([i \in 1..Len(call[c].chunks) |->
                                                  call[c].chunks[i].text])]
             ELSE SampleNextDoc([call[c] EXCEPT !.failedAt = "embed",
                                                !.error = EmbeddingServiceError],
                                call[c].docIndex + 1)]
    /\ UNCHANGED <<variant, now, indexExists, index, documents>>

\* upsert settles; stored or not, the loop goes on with the next document.
SampleUpsert(c) ==
    /\ variant = "tools"
    /\ call[c].op = "initializeSampleData" /\ call[c].pc = "upsert"
    /\ LET ids == ToolChunkIds(call[c].documentId, Len(call[c].chunks))
           rejected == UpsertError(ids, call[c].embeddings, call[c].chunkMetadata)
           issued == [call[c] EXCEPT !.log = Append(@, "upsert")]
       IN  \E ok \in BOOLEAN :
             LET error == IF rejected # NoError THEN rejected
                          ELSE IF ~ok THEN StoreWriteError ELSE NoError
             IN  IF error = NoError
                 THEN /\ index' = StoreUpsert(index, ids, call[c].embeddings,
                                              call[c].chunkMetadata)
                      /\ call' = [call EXCEPT ![c] =
                            SampleNextDoc(issued, call[c].docIndex + 1)]
                 ELSE /\ index' = index
                      /\ call' = [call EXCEPT ![c] =
                            SampleNextDoc([issued EXCEPT !.failedAt = "upsert",
                                                         !.error = error],
                                          call[c].docIndex + 1)]
    /\ UNCHANGED <<variant, now, indexExists, documents>>

----------------------------------------------------------------------------
\* The HTTP routes and the CopilotKit action handlers that call them.  The
\* agent behind a route (ragAgent.generate, a language model) answers with any
\* text, the empty one included, or throws.

\* NextResponse.json(body, {status}).
JsonResponse(status, body) == [status |-> status, body |-> body]

\* result.text of ragAgent.generate, as tried.
AgentTexts == {"", "agent answer"}

\* obj[key] || fallback, for a string field that may be absent.
OrElse(obj, key, fallback) ==
    IF key \in DOMAIN obj /\ obj[key] # "" THEN obj[key] ELSE fallback

\* The two registrations of each action: the CopilotRuntime of the copilotkit
\* route ("runtime") and useCopilotAction of ChatInterface ("chat").
Handlers == {"runtime", "chat"}

\* Inputs tried for add_document: text and metadata.
AddActionInputs ==
    { [text |-> "", metadata |-> EmptyObject],
      [text |-> "a", metadata |-> [source |-> "s1"]] }

\* Inputs tried for search_knowledge_base: query and maxResults (default 5).
SearchActionInputs ==
    { [query |-> "", maxResults |-> 5],
      [query |-> "a", maxResults |-> 5] }

\* An action handler starts: await fetch(route, {method: 'POST', body}).
ActionStart(c, action, handler, inp) ==
    /\ FirstFree(c)
    /\ call' = [call EXCEPT ![c] =
          [IdleCall EXCEPT !.op = action, !.pc = "route",
                           !.input = [handler |-> handler, body |-> inp]]]
    /\ UNCHANGED <<variant, now, indexExists, index, documents>>

\* The route answered `response`: it travels back to the handler.
Responded(c, response) ==
    [call[c] EXCEPT !.pc = "fetch", !.response = response]

\* POST /api/add-document up to its await of ragAgent.generate: the body is
\* read, an empty text is refused, the agent is looked up.
AddDocumentRoute(c) ==
    /\ call[c].op = "add_document" /\ call[c].pc = "route"
    /\ \E agentFound \in BOOLEAN :
          call' = [call EXCEPT ![c] =
             IF call[c].input.body.text = ""
             THEN Responded(c, JsonResponse(400, [error |-> "Text is required"]))
             ELSE IF ~agentFound
             THEN Responded(c, JsonResponse(500, [error |-> "RAG agent not found"]))
             ELSE [call[c] EXCEPT !.pc = "generate"]]
    /\ UNCHANGED <<variant, now, indexExists, index, documents>>

\* ragAgent.generate settles in POST /api/add-document.
AddDocumentGenerate(c) ==
    /\ call[c].op = "add_document" /\ call[c].pc = "generate"
    /\ \/ \E text \in AgentTexts :
             call' = [call EXCEPT ![c] =
                Responded(c, JsonResponse(200,
                    [success |-> TRUE, message |-> text,
                     text |-> call[c].input.body.text,
                     metadata |-> call[c].input.body.metadata]))]
       \/ call' = [call EXCEPT ![c] =
             Responded(c, JsonResponse(500,
                 [error |-> "Failed to add document to knowledge base"]))]
    /\ UNCHANGED <<variant, now, indexExists, index, documents>>

\* POST /api/rag-search up to its await of ragAgent.generate.
RagSearchRoute(c) ==
    /\ call[c].op = "search_knowledge_base" /\ call[c].pc = "route"
    /\ \E agentFound \in BOOLEAN :
          call' = [call EXCEPT ![c] =
             IF call[c].input.body.query = ""
             THEN Responded(c, JsonResponse(400, [error |-> "Query is required"]))
             ELSE IF ~agentFound
             THEN Responded(c, JsonResponse(500, [error |-> "RAG agent not found"]))
             ELSE [call[c] EXCEPT !.pc = "generate"]]
    /\ UNCHANGED <<variant, now, indexExists, index, documents>>

\* ragAgent.generate settles in POST /api/rag-search.
RagSearchGenerate(c) ==
    /\ call[c].op = "search_knowledge_base" /\ call[c].pc = "generate"
    /\ \/ \E text \in AgentTexts :
             call' = [call EXCEPT ![c] =
                Responded(c, JsonResponse(200,
                    [success |-> TRUE, result |-> text,
                     query |-> call[c].input.body.query,
                     maxResults |-> call[c].input.body.maxResults]))]
       \/ call' = [call EXCEPT ![c] =
             Responded(c, JsonResponse(500,
                 [error |-> "Failed to search knowledge base"]))]
    /\ UNCHANGED <<variant, now, indexExists, index, documents>>

\* What the catch block of a handler returns.
HandlerError(action, handler) ==
    IF action = "add_document"
    THEN (IF handler = "runtime" THEN "Error adding document to knowledge base"
          ELSE "Error occurred while adding document to knowledge base.")
    ELSE (IF handler = "runtime" THEN "Error searching knowledge base"
          ELSE "Error occurred while searching the knowledge base.")

\* What a handler returns for the parsed body `result` of the response.
HandlerReturn(action, handler, result) ==
    IF action = "add_document"
    THEN OrElse(result, "message",
                IF handler = "runtime" THEN "Document added successfully"
                ELSE "Document added successfully.")
    ELSE IF handler = "runtime"
    THEN OrElse(result, "result", "No results found")
    ELSE OrElse(result, "relevantContext", "No relevant information found.")

\* fetch settles: with the route's response (await response.json() follows),
\* or with a network failure, which the catch block takes.
ActionFetched(c) ==
    /\ call[c].op \in {"add_document", "search_knowledge_base"}
    /\ call[c].pc = "fetch"
    /\ \E ok \in BOOLEAN :
          call' = [call EXCEPT ![c] =
             IF ok THEN [call[c] EXCEPT !.pc = "json"]
             ELSE [call[c] EXCEPT
                     !.pc = "done", !.failedAt = "fetch",
                     !.returned = HandlerError(call[c].op, call[c].input.handler)]]
    /\ UNCHANGED <<variant, now, indexExists, index, documents>>

\* response.json() settles and the handler returns.
ActionReturn(c) ==
    /\ call[c].op \in {"add_document", "search_knowledge_base"}
    /\ call[c].pc = "json"
    /\ call' = [call EXCEPT ![c] =
          [call[c] EXCEPT
             !.pc = "done",
             !.returned = HandlerReturn(call[c].op, call[c].input.handler,
                                        call[c].response.body)]]
    /\ UNCHANGED <<variant, now, indexExists, index, documents>>

----------------------------------------------------------------------------
\* The environment and the specification.

\* Time passes.
Tick ==
    /\ now < MaxClock
    /\ now' = now + 1
    /\ UNCHANGED <<variant, indexExists, index, documents, call>>

\* What embedMany answers when the service does not keep to its contract: a
\* vector short, or vectors of another dimension.
MismatchedEmbeddings(values) ==
    { SubSeq(EmbedMany(values), 1, Len(values) - 1),
      [i \in 1..Len(values) |-> <<1>>] }

\* addDocumentTool: embedMany settles with a mismatched answer.
AddEmbedMismatch(c) ==
    /\ variant = "tools"
    /\ call[c].op = "addDocument" /\ call[c].pc = "embed"
    /\ \E embeddings \in MismatchedEmbeddings([i \in 1..Len(call[c].chunks) |->
                                                 call[c].chunks[i].text]) :
          call' = [call EXCEPT ![c] =
             [call[c] EXCEPT !.pc = "upsert", !.log = Append(@, "embed"),
                             !.embeddings = embeddings]]
    /\ UNCHANGED <<variant, now, indexExists, index, documents>>

\* addDocumentsToKnowledgeBase: embedMany settles with a mismatched answer.
KbEmbedMismatch(c) ==
    /\ variant = "simple"
    /\ call[c].op = "addDocuments" /\ call[c].pc = "embed"
    /\ \E embeddings \in MismatchedEmbeddings([i \in 1..Len(call[c].chunks) |->
                                                 call[c].chunks[i].text]) :
          call' = [call EXCEPT ![c] = KbEmbedded(c, embeddings)]
    /\ UNCHANGED <<variant, now, indexExists, index, documents>>

Init ==
    /\ variant \in {"tools", "simple"}
    /\ now = 0
    /\ indexExists = FALSE
    /\ index = <<>>
    /\ documents = <<>>
    /\ call = [c \in Calls |-> IdleCall]

Next ==
    \/ Tick
    \/ \E c \in Calls : \E inp \in AddDocumentInputs : AddStart(c, inp)
    \/ \E c \in Calls : AddChunk(c)
    \/ \E c \in Calls : AddCreateIndex(c)
    \/ \E c \in Calls : AddEmbed(c)
    \/ \E c \in Calls : AddUpsert(c)
    \/ \E c \in Calls : \E inp \in SearchInputs : SearchStart(c, inp)
    \/ \E c \in Calls : SearchEmbed(c)
    \/ \E c \in Calls : SearchQuery(c)
    \/ \E c \in Calls : \E inp \in KnowledgeBaseInputs : KbStart(c, inp)
    \/ \E c \in Calls : KbChunk(c)
    \/ \E c \in Calls : KbEmbed(c)
    \/ \E c \in Calls : KbStore(c)
    \/ \E c \in Calls : \E inp \in SimpleSearchInputs : SimpleSearchStart(c, inp)
    \/ \E c \in Calls : SimpleSearchEmbed(c)
    \/ \E c \in Calls : SimpleSearchQuery(c)

\* Ingestion alone, with an embedding service that may answer out of contract.
NextEmbedderMismatch ==
    \/ Tick
    \/ \E c \in Calls : \E inp \in AddDocumentInputs : AddStart(c, inp)
    \/ \E c \in Calls : AddChunk(c)
    \/ \E c \in Calls : AddCreateIndex(c)
    \/ \E c \in Calls : AddEmbed(c)
    \/ \E c \in Calls : AddEmbedMismatch(c)
    \/ \E c \in Calls : AddUpsert(c)
    \/ \E c \in Calls : \E inp \in KnowledgeBaseInputs : KbStart(c, inp)
    \/ \E c \in Calls : KbChunk(c)
    \/ \E c \in Calls : KbEmbed(c)
    \/ \E c \in Calls : KbEmbedMismatch(c)
    \/ \E c \in Calls : KbStore(c)

SpecEmbedderMismatch == Init /\ [][NextEmbedderMismatch]_vars

\* The rag-tools knowledge base fed by addDocumentTool and initializeSampleData.
NextSampleData ==
    \/ Tick
    \/ \E c \in Calls : \E inp \in AddDocumentInputs : AddStart(c, inp)
    \/ \E c \in Calls : AddChunk(c)
    \/ \E c \in Calls : AddCreateIndex(c)
    \/ \E c \in Calls : AddEmbed(c)
    \/ \E c \in Calls : AddUpsert(c)
    \/ \E c \in Calls : SampleStart(c)
    \/ \E c \in Calls : SampleCreateIndex(c)
    \/ \E c \in Calls : SampleChunk(c)
    \/ \E c \in Calls : SampleEmbed(c)
    \/ \E c \in Calls : SampleUpsert(c)

SpecSampleData == Init /\ [][NextSampleData]_vars

\* addDocumentTool inputs whose metadata carries an `id` or an `error` field,
\* and the empty text.  What MDocument.chunk makes of '' is the library's
\* business: no chunk (text <<>>) and one empty chunk (text <<"">>) are both
\* tried.
CallerMetadataInputs ==
    { [text |-> <<"a">>, metadata |-> [id |-> "my-doc"], chunkSize |-> 512, chunkOverlap |-> 50],
      [text |-> <<"a">>, metadata |-> [error |-> TRUE], chunkSize |-> 512, chunkOverlap |-> 50],
      [text |-> <<>>, metadata |-> EmptyObject, chunkSize |-> 512, chunkOverlap |-> 50],
      [text |-> <<"">>, metadata |-> EmptyObject, chunkSize |-> 512, chunkOverlap |-> 50] }

\* The rag-tools build called with these inputs, and searched.
NextCallerMetadata ==
    \/ Tick
    \/ \E c \in Calls : \E inp \in CallerMetadataInputs : AddStart(c, inp)
    \/ \E c \in Calls : AddChunk(c)
    \/ \E c \in Calls : AddCreateIndex(c)
    \/ \E c \in Calls : AddEmbed(c)
    \/ \E c \in Calls : AddUpsert(c)
    \/ \E c \in Calls : \E inp \in SearchInputs : SearchStart(c, inp)
    \/ \E c \in Calls : SearchEmbed(c)
    \/ \E c \in Calls : SearchQuery(c)

SpecCallerMetadata == Init /\ [][NextCallerMetadata]_vars

\* Searches running while ingestion calls are in flight: initializeSampleData
\* against the rag-tools index, addDocumentsToKnowledgeBase against the
\* SimpleVectorStore.
NextReadsDuringWrites ==
    \/ Tick
    \/ \E c \in Calls : SampleStart(c)
    \/ \E c \in Calls : SampleCreateIndex(c)
    \/ \E c \in Calls : SampleChunk(c)
    \/ \E c \in Calls : SampleEmbed(c)
    \/ \E c \in Calls : SampleUpsert(c)
    \/ \E c \in Calls : \E inp \in SearchInputs : SearchStart(c, inp)
    \/ \E c \in Calls : SearchEmbed(c)
    \/ \E c \in Calls : SearchQuery(c)
    \/ \E c \in Calls : \E inp \in KnowledgeBaseInputs : KbStart(c, inp)
    \/ \E c \in Calls : KbChunk(c)
    \/ \E c \in Calls : KbEmbed(c)
    \/ \E c \in Calls : KbStore(c)
    \/ \E c \in Calls : \E inp \in SimpleSearchInputs : SimpleSearchStart(c, inp)
    \/ \E c \in Calls : SimpleSearchEmbed(c)
    \/ \E c \in Calls : SimpleSearchQuery(c)

SpecReadsDuringWrites == Init /\ [][NextReadsDuringWrites]_vars

\* The action handlers and the two routes.
NextActions ==
    \/ \E c \in Calls : \E h \in Handlers : \E inp \in AddActionInputs :
          ActionStart(c, "add_document", h, inp)
    \/ \E c \in Calls : \E h \in Handlers : \E inp \in SearchActionInputs :
          ActionStart(c, "search_knowledge_base", h, inp)
    \/ \E c \in Calls : AddDocumentRoute(c)
    \/ \E c \in Calls : AddDocumentGenerate(c)
    \/ \E c \in Calls : RagSearchRoute(c)
    \/ \E c \in Calls : RagSearchGenerate(c)
    \/ \E c \in Calls : ActionFetched(c)
    \/ \E c \in Calls : ActionReturn(c)

SpecActions == Init /\ [][NextActions]_vars

Spec == Init /\ [][Next]_vars

----------------------------------------------------------------------------
\* Claims.

IsSearch(c) == call[c].op \in {"ragSearch", "simpleSearch"}
Done(c) == call[c].pc = "done"

\* The fallback content up to the reason, for each query tried.
FallbackPrefixes == {FallbackContent(inp.query, "") : inp \in SearchInputs}

\* C1: when the store query of a rag-tools search fails (the query embedding
\* was computed), the search returns, without raising, a response with exactly
\* one source, flagged metadata.error = true, whose content ends with the
\* failure reason, and searchPerformed = false.
C1_QueryFailureFallsBack ==
    \A c \in Calls :
        (call[c].op = "ragSearch" /\ Done(c) /\ call[c].failedAt = "query") =>
            LET r == call[c].result
            IN  /\ ~call[c].raised
                /\ call[c].queryEmbedding # <<>>
                /\ Len(r.sources) = 1
                /\ r.sources[1].metadata.error = TRUE
                /\ \E prefix \in FallbackPrefixes :
                      r.sources[1].content = prefix \o call[c].error.message
                /\ r.searchPerformed = FALSE

\* C1's case: a search whose store query failed on an existing index.
C1_Witness ==
    \E c \in Calls :
        /\ call[c].op = "ragSearch" /\ Done(c)
        /\ call[c].failedAt = "query"
        /\ call[c].error = StoreQueryError

ResponseFields == {"relevantContext", "sources", "totalFound", "searchPerformed"}

\* C2: a search never raises; whichever step failed, it returns a response
\* object with relevantContext, sources, totalFound and searchPerformed.
C2_SearchNeverRaises ==
    \A c \in Calls :
        (IsSearch(c) /\ Done(c)) =>
            /\ ~call[c].raised
            /\ DOMAIN call[c].result = ResponseFields

\* C3: a search that ran and matched nothing returns zero sources, the
\* "no relevant documents found" message (never the empty string) and
\* searchPerformed = true.
C3_NoMatchSentinel ==
    \A c \in Calls :
        (IsSearch(c) /\ Done(c) /\ call[c].failedAt = ""
         /\ Len(call[c].result.sources) = 0) =>
            /\ call[c].result.relevantContext = NoDocumentsMessage
            /\ call[c].result.relevantContext # ""
            /\ "searchPerformed" \in DOMAIN call[c].result
            /\ call[c].result.searchPerformed = TRUE


IsPrefix(s, t) == Len(s) <= Len(t) /\ SubSeq(t, 1, Len(s)) = s

IsIngestion(c) == call[c].op \in {"addDocument", "addDocuments"}

\* The steps of an ingestion call, in the order the claim gives.
IngestionOrder(c) ==
    IF call[c].op = "addDocument" THEN <<"chunk", "createIndex", "embed", "upsert">>
    ELSE <<"chunk", "embed", "upsert">>

\* This step is the store write (upsert / addDocuments) of call c settling.
UpsertStep(c) == call[c].pc = "upsert" /\ call'[c].pc = "done"

StoreUnchanged == index' = index /\ documents' = documents

\* The steps of every ingestion call so far are a prefix of chunk, (create
\* index,) embed, upsert, and a call whose embedding failed issued no upsert.
C4_Order ==
    \A c \in Calls :
        IsIngestion(c) =>
            /\ IsPrefix(call[c].log, IngestionOrder(c))
            /\ call[c].failedAt = "embed" =>
                  (\A i \in 1..Len(call[c].log) : call[c].log[i] # "upsert")

\* The stored entries change only in the upsert step of a call whose
\* embeddings were computed.
C4_WriteOnlyAfterEmbed ==
    ~StoreUnchanged =>
        \E c \in Calls : UpsertStep(c) /\ IsIngestion(c) /\ call[c].failedAt = ""
                         /\ \E i \in 1..Len(call[c].log) : call[c].log[i] = "embed"

\* C4: in every ingestion call the steps occur in the order chunk, embed all
\* chunks, upsert; a call whose embedding fails issues no upsert, and none of
\* its steps changes the stored entries.
C4_StrictSequencing == [](C4_Order) /\ [][C4_WriteOnlyAfterEmbed]_vars

\* C4's case: an ingestion call stopped by an embedding failure while entries
\* are stored.
C4_Witness ==
    \E c \in Calls :
        /\ IsIngestion(c) /\ Done(c) /\ call[c].failedAt = "embed"
        /\ Len(index) + Len(documents) > 0

\* The ids an addDocument call upserts.
CallChunkIds(c) == ToolChunkIds(call[c].documentId, Len(call[c].chunks))

\* Results of finished addDocument calls: success only after the upsert, with
\* every chunk stored; a failure is the explicit failed result with the reason.
C5_Results ==
    \A c \in Calls :
        (call[c].op = "addDocument" /\ Done(c)) =>
            LET r == call[c].result
            IN  /\ ~call[c].raised
                /\ r.embedded = (call[c].failedAt = "")
                /\ r.embedded =>
                      /\ call[c].log = IngestionOrder(c)
                      /\ r.chunksCreated = Len(call[c].chunks)
                      /\ \A i \in 1..Len(call[c].chunks) :
                            EntryPos(index, CallChunkIds(c)[i]) # {}
                /\ ~r.embedded =>
                      /\ call[c].failedAt \in {"chunk", "embed", "upsert"}
                      /\ r.chunksCreated = 0
                      /\ r.message = "Error processing document: "
                                     \o call[c].error.message

\* The step in which an addDocument call fails leaves the stored entries as
\* they were.
C5_FailureWritesNothing ==
    \A c \in Calls :
        (call[c].op = "addDocument" /\ ~Done(c) /\ call'[c].pc = "done"
         /\ call'[c].failedAt # "") => StoreUnchanged

\* C5: addDocument returns embedded = true only when the upsert of all the
\* document's chunks completed; on a failure in chunking, embedding or upsert
\* the caller gets the failed result (embedded = false, chunksCreated = 0, the
\* reason in the message) and the stored entries are left unmodified.
C5_HardFailure == [](C5_Results) /\ [][C5_FailureWritesNothing]_vars

\* C5's case: an addDocument call whose upsert failed while entries are stored,
\* and another one that succeeded.
C5_Witness ==
    /\ \E c \in Calls :
          /\ call[c].op = "addDocument" /\ Done(c)
          /\ call[c].failedAt = "upsert" /\ call[c].error = StoreWriteError
    /\ \E c \in Calls :
          call[c].op = "addDocument" /\ Done(c) /\ call[c].result.embedded
    /\ index # <<>>


\* Query vectors tried against every store state.
QueryVectors == {Embed("a"), Embed("b"), Embed("ab"), Embed("n")}

\* Scores do not increase along r, and equal scores keep insertion order.
RankedInOrder(r) ==
    \A i \in 1..Len(r) : \A j \in 1..Len(r) :
        i < j => /\ ~ScoreGreater(r[j].score, r[i].score)
                 /\ ScoreEqual(r[i].score, r[j].score) => r[i].pos < r[j].pos

ScoresDescend(sources) ==
    \A i \in 1..Len(sources) : \A j \in 1..Len(sources) :
        i < j => ~ScoreGreater(sources[j].score, sources[i].score)

\* C6: for every store state, query vector and topK, the results of query()
\* are in non-increasing score order and entries of equal score are in their
\* insertion order; so are the sources of every finished search.
C6_QueryOrdered ==
    /\ \A q \in QueryVectors : \A k \in TopKs :
          RankedInOrder(QueryRanked(documents, q, k))
    /\ \A c \in Calls :
          (call[c].op = "simpleSearch" /\ Done(c)) =>
              ScoresDescend(call[c].result.sources)

\* C6's case: a finished search returned two sources of equal score.
C6_Witness ==
    \E c \in Calls :
        /\ call[c].op = "simpleSearch" /\ Done(c)
        /\ Len(call[c].result.sources) = 2
        /\ ScoreEqual(call[c].result.sources[1].score, call[c].result.sources[2].score)
        /\ call[c].result.sources[1].id # call[c].result.sources[2].id

\* Every document scored against q, with its position.
AllScored(docs, q) ==
    [i \in 1..Len(docs) |->
       [id |-> docs[i].id, score |-> cosineSimilarity(q, docs[i].embedding),
        metadata |-> docs[i].metadata, pos |-> i]]

\* The positions of r's entries, in order.
Positions(r) == [i \in 1..Len(r) |-> r[i].pos]

\* The positions of the documents scoring above 0.1, best first, ties in
\* insertion order, stated without reference to the sort.
EligibleRanking(docs, q) ==
    LET all == AllScored(docs, q)
        eligible == {i \in 1..Len(docs) : ScoreGreater(all[i].score, LowSimilarity)}
        Before(i, j) == \/ ScoreGreater(all[i].score, all[j].score)
                        \/ ScoreEqual(all[i].score, all[j].score) /\ i < j
        RankOf(i) == 1 + Cardinality({j \in eligible : Before(j, i)})
    IN  [n \in 1..Cardinality(eligible) |-> CHOOSE i \in eligible : RankOf(i) = n]

Min(a, b) == IF a < b THEN a ELSE b

\* C7: query() returns at most topK results, all scoring strictly above the
\* threshold, and they are exactly the first topK of the entries above the
\* threshold in descending score order; a finished search holds at most
\* maxResults sources, all above its threshold.
C7_TopKAboveThreshold ==
    /\ \A q \in QueryVectors : \A k \in TopKs :
          LET r == QueryRanked(documents, q, k)
              best == EligibleRanking(documents, q)
          IN  /\ Len(r) <= k
              /\ \A i \in 1..Len(r) : ScoreGreater(r[i].score, LowSimilarity)
              /\ Positions(r) = SubSeq(best, 1, Min(k, Len(best)))
    /\ \A c \in Calls :
          (IsSearch(c) /\ Done(c) /\ call[c].failedAt = "") =>
              LET sources == call[c].result.sources
                  min == IF call[c].op = "ragSearch" THEN call[c].input.minScore
                         ELSE LowSimilarity
              IN  /\ Len(sources) <= call[c].input.maxResults
                  /\ \A i \in 1..Len(sources) : ScoreGreater(sources[i].score, min)

\* C7's case: the store holds more entries above the threshold than topK, and
\* one below it; the search returned topK of them.
C7_Witness ==
    \E c \in Calls :
        /\ call[c].op = "simpleSearch" /\ Done(c)
        /\ call[c].input.maxResults = 1
        /\ Len(call[c].result.sources) = 1
        /\ Len(EligibleRanking(documents, call[c].queryEmbedding)) >= 2
        /\ Len(EligibleRanking(documents, call[c].queryEmbedding)) < Len(documents)


OneEntryPerId(store) ==
    \A i \in 1..Len(store) : \A j \in 1..Len(store) :
        store[i].id = store[j].id => i = j

\* The entries the store write of call c is given.
WrittenBatch(c) ==
    IF call[c].op = "addDocument"
    THEN [i \in 1..Len(call[c].chunks) |->
            [id |-> CallChunkIds(c)[i], embedding |-> call[c].embeddings[i],
             metadata |-> call[c].chunkMetadata[i]]]
    ELSE [i \in 1..Len(call[c].chunks) |->
            [id |-> "doc-" \o ToString(now) \o "-" \o ToString(i - 1),
             embedding |-> VectorAt(call[c].embeddings, i - 1),
             metadata |-> Spread([text |-> call[c].chunks[i].text],
                                 call[c].chunks[i].metadata)]]

EntriesWithId(store, id) == {store[p] : p \in EntryPos(store, id)}

\* After a store write, each id written holds the entry just written, whole,
\* and nothing else.
C8_LastWriteWins_Step ==
    \A c \in Calls :
        (UpsertStep(c) /\ IsIngestion(c) /\ call'[c].failedAt = "") =>
            LET batch == WrittenBatch(c)
                store == IF call[c].op = "addDocument" THEN index' ELSE documents'
            IN  \A i \in 1..Len(batch) :
                    EntriesWithId(store, batch[i].id) = {batch[i]}

\* C8: after any sequence of upserts, overlapping or not, a store holds at most
\* one entry per id, and it is wholly the entry of the latest upsert of that id.
C8_LastWriteWins ==
    /\ [](OneEntryPerId(index) /\ OneEntryPerId(documents))
    /\ [][C8_LastWriteWins_Step]_vars

\* The arguments of call c's store write are well formed: one vector of
\* Dimension components per chunk.
WriteWellFormed(c) ==
    /\ Len(call[c].embeddings) = Len(call[c].chunks)
    /\ \A i \in 1..Len(call[c].embeddings) : Len(call[c].embeddings[i]) = Dimension

\* C9: every vector written to a store has exactly Dimension components; a
\* store write given arrays of different lengths, or a vector of another
\* length or none, is rejected with DimensionMismatch.
C9_DimensionChecked ==
    /\ \A i \in 1..Len(index) : Len(index[i].embedding) = Dimension
    /\ \A i \in 1..Len(documents) : Len(documents[i].embedding) = Dimension
    /\ \A c \in Calls :
          (IsIngestion(c) /\ Done(c) /\ call[c].log = IngestionOrder(c)
           /\ ~WriteWellFormed(c)) =>
              call[c].error = DimensionMismatch

\* The write of call c put its whole batch in the store, touching no entry
\* of another id.
BatchStored(c) ==
    LET n == Len(call[c].chunks)
    IN  IF call[c].op = "addDocument"
        THEN /\ \A i \in 1..n :
                   \E p \in 1..Len(index') :
                       /\ index'[p].id = CallChunkIds(c)[i]
                       /\ index'[p].embedding = call[c].embeddings[i]
                       /\ index'[p].metadata = call[c].chunkMetadata[i]
             /\ \A p \in 1..Len(index) :
                   (\A i \in 1..n : index[p].id # CallChunkIds(c)[i])
                       => index'[p] = index[p]
             /\ documents' = documents
        ELSE /\ Len(documents') = Len(documents) + n
             /\ SubSeq(documents', 1, Len(documents)) = documents
             /\ \A i \in 1..n :
                   /\ documents'[Len(documents) + i].metadata.text = call[c].chunks[i].text
                   /\ documents'[Len(documents) + i].embedding = call[c].embeddings[i]
             /\ index' = index

\* A store write either fails and changes nothing or stores its whole batch.
C10_AllOrNothing ==
    \A c \in Calls :
        (UpsertStep(c) /\ IsIngestion(c)) =>
            IF call'[c].failedAt # "" THEN StoreUnchanged ELSE BatchStored(c)

\* C10: an upsert batch is atomic: a failed upsert stores none of its entries
\* and leaves every stored entry as it was; no call leaves a strict, non-empty
\* part of its batch in the store.
C10_BatchAtomic == [][C10_AllOrNothing]_vars

\* C10's case: an upsert of two entries failed while other entries were
\* stored, and a batch of several entries was stored by another call.
C10_Witness ==
    \E c \in Calls :
        /\ call[c].op = "addDocument" /\ Done(c)
        /\ call[c].failedAt = "upsert" /\ call[c].error = StoreWriteError
        /\ Len(call[c].chunks) = 2
        /\ index # <<>>

\* Calls that write to the rag-tools index: chunk, embed, upsert per document.
IsToolIngestion(c) == call[c].op \in {"addDocument", "initializeSampleData"}

\* The createIndex of call c settles in this step.
CreateIndexStep(c) ==
    IsToolIngestion(c) /\ call[c].pc = "createIndex" /\ call'[c].pc # "createIndex"

\* createIndex changes no entry, keeps an existing index, and the call goes on
\* to its next step without a failure recorded.
C11_CreateIndexBenign ==
    \A c \in Calls :
        CreateIndexStep(c) =>
            /\ index' = index
            /\ indexExists => indexExists'
            /\ call'[c].failedAt = "" /\ ~call'[c].raised
            /\ call'[c].pc = (IF call[c].op = "addDocument" THEN "embed" ELSE "chunk")

\* No call ever fails at createIndex, and an addDocument call that found the
\* index in place and then met no failure ran every step and stored its chunks.
C11_LaterCallsProceed ==
    \A c \in Calls :
        IsToolIngestion(c) =>
            /\ call[c].failedAt # "createIndex"
            /\ (call[c].op = "addDocument" /\ call[c].indexExisted /\ Done(c)
                /\ call[c].failedAt = "") =>
                  /\ call[c].log = <<"chunk", "createIndex", "embed", "upsert">>
                  /\ call[c].result.embedded
                  /\ \A i \in 1..Len(call[c].chunks) :
                        EntryPos(index, ToolChunkIds(call[c].documentId,
                                                     Len(call[c].chunks))[i]) # {}

\* C11: createIndex on an index that already exists leaves the index and its
\* entries unchanged and is never a hard failure: the second and every later
\* addDocument / initializeSampleData call goes on to embed and upsert as the
\* first one did.
C11_CreateIndexIdempotent ==
    [](C11_LaterCallsProceed) /\ [][C11_CreateIndexBenign]_vars

\* C11's case: an addDocument call whose createIndex found the index in place,
\* with entries in it, finished with its chunks stored.
C11_Witness ==
    \E c \in Calls :
        /\ call[c].op = "addDocument" /\ call[c].indexExisted
        /\ Done(c) /\ call[c].result.embedded

\* The caller of addDocument call c supplied a document id.
SuppliesId(c) ==
    call[c].op = "addDocument" /\ "id" \in DOMAIN call[c].input.supplied

\* C12: when the caller supplies a document id, addDocument uses it: the
\* documentId returned is the supplied id and the chunk ids stored are derived
\* from it, so ingesting a text twice under one supplied id leaves the index
\* with the entry ids of ingesting it once.
C12_SuppliedIdUsed ==
    /\ \A c \in Calls :
          (SuppliesId(c) /\ Done(c) /\ call[c].result.embedded) =>
              /\ call[c].result.documentId = call[c].input.supplied.id
              /\ \A i \in 1..Len(call[c].chunks) :
                    EntryPos(index, ChunkId(call[c].input.supplied.id, i - 1)) # {}
    /\ \A c \in Calls : \A d \in Calls :
          (SuppliesId(c) /\ SuppliesId(d) /\ Done(c) /\ Done(d)
           /\ call[c].result.embedded /\ call[d].result.embedded
           /\ call[c].input.supplied.id = call[d].input.supplied.id
           /\ call[c].input.text = call[d].input.text) =>
              call[c].result.documentId = call[d].result.documentId

\* C13: generated ids are collision-resistant: two addDocument calls that
\* supply no id, overlapping and reading the same clock value or not, get
\* distinct documentIds, so no chunk entry of one document shares its id with,
\* or overwrites, an entry of another.
C13_GeneratedIdsDistinct ==
    /\ \A c \in Calls : \A d \in Calls :
          (c # d /\ call[c].op = "addDocument" /\ call[d].op = "addDocument"
           /\ ~SuppliesId(c) /\ ~SuppliesId(d)
           /\ call[c].documentId # "" /\ call[d].documentId # "") =>
              call[c].documentId # call[d].documentId
    /\ \A i \in 1..Len(documents) : \A j \in 1..Len(documents) :
          i # j => documents[i].id # documents[j].id

\* The upsert call c is about to issue for its n chunks: ids, vectors, metadata.
UpsertRequest(c) ==
    [ids |-> ToolChunkIds(call[c].documentId, Len(call[c].chunks)),
     vectors |-> call[c].embeddings,
     metadata |-> call[c].chunkMetadata]

\* The request of a call waiting on its upsert: chunk i has the id
\* `{documentId}-chunk-{i}`, ids differ pairwise, the three arrays have length n.
C14_RequestShape ==
    \A c \in Calls :
        (IsToolIngestion(c) /\ call[c].pc = "upsert") =>
            LET req == UpsertRequest(c)
                n == Len(call[c].chunks)
            IN  /\ Len(req.ids) = n /\ Len(req.vectors) = n /\ Len(req.metadata) = n
                /\ \A i \in 1..n :
                      /\ req.ids[i] = call[c].documentId \o "-chunk-" \o ToString(i - 1)
                      /\ req.metadata[i].documentId = call[c].documentId
                      /\ req.metadata[i].chunkIndex = i - 1
                /\ \A i \in 1..n : \A j \in 1..n : req.ids[i] = req.ids[j] => i = j

\* An upsert that is accepted stores chunk i under `{documentId}-chunk-{i}`
\* with its vector and metadata, and addDocument reports chunksCreated = n.
C14_StoredAsRequested ==
    \A c \in Calls :
        (IsToolIngestion(c) /\ call[c].pc = "upsert" /\ call'[c].pc # "upsert"
         /\ call'[c].failedAt # "upsert") =>
            LET n == Len(call[c].chunks)
            IN  /\ \A i \in 1..n :
                      \E p \in 1..Len(index') :
                          /\ index'[p].id = call[c].documentId \o "-chunk-" \o ToString(i - 1)
                          /\ index'[p].embedding = call[c].embeddings[i]
                          /\ index'[p].metadata = call[c].chunkMetadata[i]
                /\ call[c].op = "addDocument" => call'[c].result.chunksCreated = n

\* C14: in every upsert issued by an ingestion call with n chunks, chunk i has
\* the id `{documentId}-chunk-{i}`, i = 0..n-1, the ids are pairwise distinct
\* within the document, the ids, vectors and metadata arrays all have length
\* n, and the chunksCreated reported equals n.
C14_ChunkIds == [](C14_RequestShape) /\ [][C14_StoredAsRequested]_vars

\* C14's case: an addDocument call stored a document of two chunks and
\* reported chunksCreated = 2, and initializeSampleData stored a sample.
C14_Witness ==
    /\ \E c \in Calls :
          /\ call[c].op = "addDocument" /\ Done(c)
          /\ call[c].result.embedded /\ call[c].result.chunksCreated = 2
          /\ EntryPos(index, call[c].documentId \o "-chunk-1") # {}
    /\ EntryPos(index, "doc-sample-1-chunk-0") # {}

\* An ingestion call whose store write is issued and not yet settled.
WriteInFlight(d) ==
    call[d].op \in {"addDocument", "addDocuments", "initializeSampleData"}
    /\ call[d].pc = "upsert"

\* The store the searches of this build read.
CurrentStore == IF variant = "tools" THEN index ELSE documents

\* The store once the write of call d, in flight, is applied.
StoreAfterWrite(d) ==
    IF call[d].op = "addDocuments"
    THEN addDocuments(documents,
                      [i \in 1..Len(call[d].chunks) |-> call[d].chunks[i].text],
                      call[d].embeddings,
                      [i \in 1..Len(call[d].chunks) |-> call[d].chunks[i].metadata],
                      now)
    ELSE StoreUpsert(index, UpsertRequest(d).ids, UpsertRequest(d).vectors,
                     UpsertRequest(d).metadata)

\* Source s is a whole entry of store S scored against q: its id, its metadata
\* and the score of its own embedding.
WholeEntryOf(s, S, q) ==
    \E p \in 1..Len(S) :
        /\ S[p].id = s.id
        /\ S[p].metadata = s.metadata
        /\ S[p].embedding # <<>>
        /\ s.score = cosineSimilarity(q, S[p].embedding)

\* A rag-tools search waiting on its store query can complete whatever the
\* other calls are doing, a write in flight included.  (The query of the
\* SimpleVectorStore is a synchronous scan: it waits for nothing.)
C15_QueryNotBlocked ==
    \A c \in Calls :
        (call[c].op = "ragSearch" /\ call[c].pc = "query") => ENABLED SearchQuery(c)

\* The sources a store query returns are whole entries of the store as it is
\* before, or as it is after, a write in flight.
C15_WholeEntries ==
    \A c \in Calls :
        (IsSearch(c) /\ call[c].pc = "query" /\ call'[c].pc = "done"
         /\ call'[c].failedAt = "") =>
            \A i \in 1..Len(call'[c].result.sources) :
                \/ WholeEntryOf(call'[c].result.sources[i], CurrentStore,
                                call[c].queryEmbedding)
                \/ \E d \in Calls :
                      /\ WriteInFlight(d)
                      /\ WholeEntryOf(call'[c].result.sources[i], StoreAfterWrite(d),
                                      call[c].queryEmbedding)

Count(log, step) == Cardinality({i \in 1..Len(log) : log[i] = step})

\* Embedding requests call c has issued: those that settled with vectors and
\* the one that failed.
EmbedRequests(c) ==
    Count(call[c].log, "embed") + (IF call[c].failedAt = "embed" THEN 1 ELSE 0)

\* Upsert requests call c has issued, failed ones included.
UpsertRequests(c) == Count(call[c].log, "upsert")

\* One embedding request at most, covering every chunk, one upsert request at
\* most, and a call that met a failure is over.
C16_RequestCounts ==
    \A c \in Calls :
        IsIngestion(c) =>
            /\ EmbedRequests(c) <= 1
            /\ UpsertRequests(c) <= 1
            /\ call[c].pc = "upsert" =>
                  /\ EmbedRequests(c) = 1
                  /\ Len(call[c].embeddings) = Len(call[c].chunks)
            /\ call[c].failedAt # "" => Done(c)

\* A call that failed takes no further step.
C16_NoRetry ==
    \A c \in Calls :
        (IsIngestion(c) /\ call[c].failedAt # "") => call'[c] = call[c]

\* C16: an addDocument call issues at most one embedding request, one batched
\* call for all of the document's chunks, and at most one upsert request, and
\* repeats neither after a failure.
C16_SingleRequests == [](C16_RequestCounts) /\ [][C16_NoRetry]_vars

\* C16's case: a call whose embedding request failed, and a document of
\* several chunks embedded in one request and stored in one upsert.
C16_Witness ==
    /\ \E c \in Calls :
          IsIngestion(c) /\ Done(c) /\ call[c].failedAt = "embed"
    /\ \E c \in Calls :
          /\ IsIngestion(c) /\ Done(c) /\ Len(call[c].chunks) >= 2
          /\ EmbedRequests(c) = 1 /\ UpsertRequests(c) = 1

\* The text of addDocument call c is the empty string.
EmptyText(c) ==
    call[c].op = "addDocument" /\ call[c].input.text \in {<<>>, <<"">>}

\* C17: addDocument("") fails with InvalidChunkConfig instead of creating an
\* empty chunk: unless the embedding service or the store fails first, the
\* call ends with the failed result for InvalidChunkConfig, and in no case
\* does it write an entry.
C17_EmptyTextRejected ==
    \A c \in Calls :
        (EmptyText(c) /\ Done(c)) =>
            /\ \A i \in 1..Len(index) : index[i].metadata.documentId # call[c].documentId
            /\ call[c].failedAt \notin {"embed", "upsert"} =>
                  /\ ~call[c].result.embedded
                  /\ call[c].error = InvalidChunkConfig

\* The fixed separator of both builds.
ContextSeparator == "\n\n---\n\n"

\* The texts of the sources joined in order, each with its tag or bare.
ContextOf(sources, tagged) ==
    Join([i \in 1..Len(sources) |->
            IF tagged THEN "[Source: "
                           \o (IF "documentId" \in DOMAIN sources[i].metadata
                               THEN sources[i].metadata.documentId ELSE "unknown")
                           \o "]\n" \o sources[i].content
            ELSE sources[i].content],
         ContextSeparator)

\* What the store returns for the query of search c, in rank order.
StoreRanking(c) ==
    IF call[c].op = "ragSearch"
    THEN StoreQuery(index, call[c].queryEmbedding, call[c].input.maxResults,
                    call[c].input.filter, call[c].input.minScore)
    ELSE query(documents, call[c].queryEmbedding, call[c].input.maxResults)

\* The response of a search whose store query succeeds in this step.
C18_Assembled ==
    \A c \in Calls :
        (IsSearch(c) /\ call[c].pc = "query" /\ call'[c].pc = "done"
         /\ call'[c].failedAt = "") =>
            LET r == call'[c].result
                ranked == StoreRanking(c)
            IN  /\ Len(r.sources) = Len(ranked)
                /\ \A i \in 1..Len(ranked) :
                      /\ r.sources[i].id = ranked[i].id
                      /\ r.sources[i].score = ranked[i].score
                      /\ r.sources[i].content = ranked[i].metadata.text
                /\ Len(ranked) >= 1 =>
                      r.relevantContext \in {ContextOf(r.sources, TRUE),
                                             ContextOf(r.sources, FALSE)}
                /\ "totalFound" \in DOMAIN r
                /\ r.totalFound = Len(r.sources)

\* C18: in the response of a successful search the sources are in the rank
\* order the store returned, relevantContext is their texts in that order
\* joined by the fixed separator, each with or without its source tag, and
\* totalFound is the number of sources.
C18_ContextAssembly == [][C18_Assembled]_vars

\* The score 1.0.
MaximalScore == [num |-> 1, den |-> 1]

\* Documents stored before position p whose vectors have the direction of p's:
\* they score 1.0 against it and, the sort being stable, rank before it.
EarlierTies(docs, p) ==
    {q \in 1..(p - 1) :
        ScoreEqual(cosineSimilarity(docs[p].embedding, docs[q].embedding), MaximalScore)}

\* Querying docs with the vector of the document at position p, for topK = k,
\* returns that document first or tied for first, with score 1.0.
SelfRetrieved(docs, p, k) ==
    LET r == QueryRanked(docs, docs[p].embedding, k)
    IN  /\ Len(r) >= 1
        /\ ScoreEqual(r[1].score, MaximalScore)
        /\ \E i \in 1..Len(r) :
              r[i].pos = p /\ ScoreEqual(r[i].score, r[1].score)

\* C19 as stated: after V is stored under id X, whatever the store held
\* before, a query with V and topK >= 1 returns X ranked first or tied for
\* first, with the maximal score 1.0.
C19_SelfRetrieval_Stated ==
    [][\A c \in Calls :
          (UpsertStep(c) /\ call[c].op = "addDocuments") =>
              \A p \in (Len(documents) + 1)..Len(documents') :
                  \A k \in 1..MaxTopK : SelfRetrieved(documents', p, k)]_vars

\* C19, amended: for every stored document X with vector V and every
\* topK >= 1, a query with V returns first a result of score 1.0, which is X
\* or a document stored before X whose vector has V's direction; X itself is
\* among the results, tied for first, whenever fewer than topK such documents
\* were stored before it.
C19_SelfRetrieval ==
    \A p \in 1..Len(documents) : \A k \in 1..MaxTopK :
        LET r == QueryRanked(documents, documents[p].embedding, k)
        IN  /\ Len(r) >= 1
            /\ ScoreEqual(r[1].score, MaximalScore)
            /\ r[1].pos \in EarlierTies(documents, p) \cup {p}
            /\ Cardinality(EarlierTies(documents, p)) < k =>
                  \E i \in 1..Len(r) :
                      r[i].pos = p /\ ScoreEqual(r[i].score, MaximalScore)
            /\ Cardinality(EarlierTies(documents, p)) >= k =>
                  \A i \in 1..Len(r) : r[i].pos # p

\* C19's case: the store holds a document and, stored before it, another
\* whose vector has the same direction, next to one that has not.
C19_Witness ==
    \E p \in 1..Len(documents) :
        /\ EarlierTies(documents, p) # {}
        /\ \E q \in 1..Len(documents) :
              ~ScoreEqual(cosineSimilarity(documents[p].embedding,
                                           documents[q].embedding), MaximalScore)

\* A source flagged as the product of a failure.
ErrorFlagged(source) ==
    "error" \in DOMAIN source.metadata /\ source.metadata.error = TRUE

\* C20: a source with metadata.error = true appears in a search response only
\* when searchPerformed = false; no addDocument calls, whatever metadata their
\* callers supply, make a response with searchPerformed = true hold an
\* error-flagged source.
C20_ErrorFlagOnlyOnFallback ==
    \A c \in Calls :
        (call[c].op = "ragSearch" /\ Done(c) /\ call[c].result.searchPerformed) =>
            \A i \in 1..Len(call[c].result.sources) :
                ~ErrorFlagged(call[c].result.sources[i])

\* The success defaults of the two add_document handlers.
AddedSuccessfully == {"Document added successfully", "Document added successfully."}

\* C21: the add_document handler never reports success for a document that
\* was not added: when the /api/add-document route answers with an error
\* response (400, 500), the handler returns the error and not "Document added
\* successfully".
C21_AddActionReportsErrors ==
    \A c \in Calls :
        (call[c].op = "add_document" /\ Done(c) /\ call[c].failedAt = ""
         /\ call[c].response.status # 200) =>
            /\ call[c].returned \notin AddedSuccessfully
            /\ call[c].returned = call[c].response.body.error

\* C22: when the /api/rag-search route answers successfully, a
\* search_knowledge_base handler returns the answer text of the response (the
\* field the route sets), and its "no results" default only when the route
\* produced no answer text.
C22_SearchActionReturnsAnswer ==
    \A c \in Calls :
        (call[c].op = "search_knowledge_base" /\ Done(c) /\ call[c].failedAt = ""
         /\ call[c].response.status = 200) =>
            IF call[c].response.body.result # ""
            THEN call[c].returned = call[c].response.body.result
            ELSE call[c].returned \in {"No results found",
                                       "No relevant information found."}

====
